---- MODULE Spec2Model ----
(***************************************************************************)
(* Model of the "Generate Comment" editor action of                        *)
(* src/vs/editor/contrib/comment/browser/autoCommentAction.ts.             *)
(*                                                                         *)
(* Text is modelled as TLA+ strings, one character per position; the       *)
(* regular expressions of the action are kept as syntax trees and run by   *)
(* a backtracking matcher with JavaScript's priorities (leftmost start,    *)
(* alternatives left to right, greedy quantifiers).                        *)
(***************************************************************************)
EXTENDS Integers, Sequences, FiniteSets, TLC

(***************************************************************************)
(* Characters and strings.                                                 *)
(***************************************************************************)
CharAt(s, i) == SubSeq(s, i, i)

LowerLetters == "abcdefghijklmnopqrstuvwxyz"
UpperLetters == "ABCDEFGHIJKLMNOPQRSTUVWXYZ"
Digits == "0123456789"

CharsOf(s) == { CharAt(s, k) : k \in 1..Len(s) }

\* \w of a JavaScript regular expression: [A-Za-z0-9_]
WordChars == CharsOf(LowerLetters) \cup CharsOf(UpperLetters) \cup CharsOf(Digits) \cup {"_"}

\* \s of a JavaScript regular expression, and what String.prototype.trim strips
\* (the white space that a line of a text model can hold)
SpaceChars == {" ", "\t"}

\* canonical form of a character under the i flag
LowerOf == [c \in CharsOf(UpperLetters) |->
              CharAt(LowerLetters, CHOOSE k \in 1..Len(UpperLetters) : CharAt(UpperLetters, k) = c)]

Fold(c) == IF c \in DOMAIN LowerOf THEN LowerOf[c] ELSE c

\* canonical form of a text under the i flag
RECURSIVE FoldText(_)
FoldText(s) == IF s = "" THEN "" ELSE Fold(CharAt(s, 1)) \o FoldText(SubSeq(s, 2, Len(s)))

\* String.prototype.trimStart
RECURSIVE trimStart(_)
trimStart(s) ==
    IF Len(s) > 0 /\ CharAt(s, 1) \in SpaceChars
    THEN trimStart(SubSeq(s, 2, Len(s)))
    ELSE s

\* String.prototype.trimEnd
RECURSIVE trimEnd(_)
trimEnd(s) ==
    IF Len(s) > 0 /\ CharAt(s, Len(s)) \in SpaceChars
    THEN trimEnd(SubSeq(s, 1, Len(s) - 1))
    ELSE s

\* String.prototype.trim
trim(s) == trimEnd(trimStart(s))

(***************************************************************************)
(* Regular expressions: syntax trees.  The letters of a pattern are lower  *)
(* case; under the i flag it is matched against the folded text.           *)
(***************************************************************************)
ReSet(cs) == [t |-> "set", cs |-> cs]
ReCh(c) == ReSet({c})
ReStr(w) == [t |-> "str", w |-> w]
ReCat(rs) == [t |-> "cat", rs |-> rs]
ReAlt(rs) == [t |-> "alt", rs |-> rs]
ReStar(r) == [t |-> "star", r |-> r]
RePlus(r) == ReCat(<<r, ReStar(r)>>)
ReOpt(r) == [t |-> "opt", r |-> r]
ReGrp(r) == [t |-> "grp", r |-> r]
ReBol == [t |-> "bol"]

ReW == ReSet(WordChars)
ReS == ReSet(SpaceChars)
ReWAngle == ReSet(WordChars \cup {"<", ">"})

\* the value of a failed match, and of a name that was not extracted
Null == ""

(***************************************************************************)
(* The matcher.  ReMatch(re, f, i, cap) is the list of the ways re matches *)
(* the text f from position i, in the order a backtracking engine tries    *)
(* them; each is <<position after the match, start of the capture group,   *)
(* position after the capture group>>.                                     *)
(***************************************************************************)
RECURSIVE ReMatch(_, _, _, _), ReMatchCat(_, _, _, _, _), ReMatchAlt(_, _, _, _, _),
          ReMatchEach(_, _, _, _, _), ReMatchStar(_, _, _, _, _)

ReMatch(re, f, i, cap) ==
    CASE re.t = "set" ->
            IF i <= Len(f) /\ CharAt(f, i) \in re.cs THEN << <<i + 1, cap>> >> ELSE << >>
      [] re.t = "str" ->
            IF i + Len(re.w) - 1 <= Len(f) /\ SubSeq(f, i, i + Len(re.w) - 1) = re.w
            THEN << <<i + Len(re.w), cap>> >>
            ELSE << >>
      [] re.t = "bol" -> IF i = 1 THEN << <<i, cap>> >> ELSE << >>
      [] re.t = "cat" -> ReMatchCat(re.rs, 1, f, i, cap)
      [] re.t = "alt" -> ReMatchAlt(re.rs, 1, f, i, cap)
      [] re.t = "opt" -> ReMatch(re.r, f, i, cap) \o << <<i, cap>> >>
      [] re.t = "star" -> ReMatchStar(re.r, ReMatch(re.r, f, i, cap), 1, f, i) \o << <<i, cap>> >>
      [] re.t = "grp" ->
            LET ms == ReMatch(re.r, f, i, cap)
            IN  [k \in 1..Len(ms) |-> <<ms[k][1], <<i, ms[k][1]>> >>]

\* rs[k], rs[k+1], ... in sequence
ReMatchCat(rs, k, f, i, cap) ==
    IF k > Len(rs)
    THEN << <<i, cap>> >>
    ELSE ReMatchEach(rs, k + 1, ReMatch(rs[k], f, i, cap), 1, f)

\* the continuations rs[k], ... after each of the matches ms[j], ms[j+1], ...
ReMatchEach(rs, k, ms, j, f) ==
    IF j > Len(ms)
    THEN << >>
    ELSE ReMatchCat(rs, k, f, ms[j][1], ms[j][2]) \o ReMatchEach(rs, k, ms, j + 1, f)

\* rs[k] | rs[k+1] | ...
ReMatchAlt(rs, k, f, i, cap) ==
    IF k > Len(rs)
    THEN << >>
    ELSE ReMatch(rs[k], f, i, cap) \o ReMatchAlt(rs, k + 1, f, i, cap)

\* one more iteration of r* after each of the matches ms[j], ... of r at i
\* (an iteration that consumes nothing ends the loop)
ReMatchStar(r, ms, j, f, i) ==
    IF j > Len(ms)
    THEN << >>
    ELSE (IF ms[j][1] > i
          THEN ReMatchStar(r, ReMatch(r, f, ms[j][1], ms[j][2]), 1, f, ms[j][1]) \o << ms[j] >>
          ELSE << >>)
         \o ReMatchStar(r, ms, j + 1, f, i)

\* the first match of re in f at or after position i, << >> when there is none
RECURSIVE ReSearch(_, _, _)
ReSearch(re, f, i) ==
    IF i > Len(f) + 1 THEN << >>
    ELSE LET ms == ReMatch(re, f, i, <<0, 0>>)
         IN  IF ms # << >> THEN <<ms[1]>> ELSE ReSearch(re, f, i + 1)

\* RegExp.prototype.exec: << >> for null, else <<the text of the capture group>>
ReExec(re, s, icase) ==
    LET m == ReSearch(re, IF icase THEN FoldText(s) ELSE s, 1)
    IN  IF m = << >> THEN << >> ELSE <<SubSeq(s, m[1][2][1], m[1][2][2] - 1)>>

\* RegExp.prototype.test
ReTest(re, s, icase) == ReExec(re, s, icase) # << >>

(***************************************************************************)
(* The helper methods for code analysis.                                   *)
(***************************************************************************)
ReModifier == ReOpt(ReAlt(<<ReStr("public"), ReStr("private"), ReStr("protected")>>))
ReStatic == ReOpt(ReCat(<<ReStr("static"), RePlus(ReS)>>))

\* /^(function\s+\w+|const\s+\w+\s*=\s*\(|\w+\s*\(|async\s+function|\w+\s*:\s*function|export\s+function|function\s*\*)/i
ReFunctionJs ==
    ReCat(<<ReBol, ReAlt(<<
        ReCat(<<ReStr("function"), RePlus(ReS), RePlus(ReW)>>),
        ReCat(<<ReStr("const"), RePlus(ReS), RePlus(ReW), ReStar(ReS), ReCh("="), ReStar(ReS), ReCh("(")>>),
        ReCat(<<RePlus(ReW), ReStar(ReS), ReCh("(")>>),
        ReCat(<<ReStr("async"), RePlus(ReS), ReStr("function")>>),
        ReCat(<<RePlus(ReW), ReStar(ReS), ReCh(":"), ReStar(ReS), ReStr("function")>>),
        ReCat(<<ReStr("export"), RePlus(ReS), ReStr("function")>>),
        ReCat(<<ReStr("function"), ReStar(ReS), ReCh("*")>>) >>) >>)

\* /^(public|private|protected)?\s*(static\s+)?[\w<>]+\s+\w+\s*\(/i
ReFunctionMethod ==
    ReCat(<<ReBol, ReModifier, ReStar(ReS), ReStatic, RePlus(ReWAngle), RePlus(ReS), RePlus(ReW),
            ReStar(ReS), ReCh("(")>>)

\* /^def\s+\w+\s*\(/i
ReFunctionDef == ReCat(<<ReBol, ReStr("def"), RePlus(ReS), RePlus(ReW), ReStar(ReS), ReCh("(")>>)

\* the arrow-assignment alternative without its "(": every const assignment
isFunctionDeclaration_anyConst(line) ==
    \/ ReTest(ReFunctionJs, line, TRUE)
    \/ ReTest(ReFunctionMethod, line, TRUE)
    \/ ReTest(ReFunctionDef, line, TRUE)
    \/ ReTest(ReCat(<<ReBol, ReStr("const"), RePlus(ReS), RePlus(ReW), ReStar(ReS), ReCh("=")>>),
              line, TRUE)

isFunctionDeclaration(line) ==
    \/ ReTest(ReFunctionJs, line, TRUE)
    \/ ReTest(ReFunctionMethod, line, TRUE)
    \/ ReTest(ReFunctionDef, line, TRUE)

\* /function\s+(\w+)/i
ReNameFunction == ReCat(<<ReStr("function"), RePlus(ReS), ReGrp(RePlus(ReW))>>)
\* /const\s+(\w+)\s*=/i
ReNameConst == ReCat(<<ReStr("const"), RePlus(ReS), ReGrp(RePlus(ReW)), ReStar(ReS), ReCh("=")>>)
\* /(\w+)\s*\(/
ReNameCall == ReCat(<<ReGrp(RePlus(ReW)), ReStar(ReS), ReCh("(")>>)
\* /[\w<>]+\s+(\w+)\s*\(/
ReNameMethod == ReCat(<<RePlus(ReWAngle), RePlus(ReS), ReGrp(RePlus(ReW)), ReStar(ReS), ReCh("(")>>)
\* /def\s+(\w+)\s*\(/i
ReNameDef == ReCat(<<ReStr("def"), RePlus(ReS), ReGrp(RePlus(ReW)), ReStar(ReS), ReCh("(")>>)

\* the capture group on the first word instead of the name
extractFunctionName_firstWord(line) ==
    LET match == ReExec(ReGrp(RePlus(ReW)), line, TRUE)
    IN  IF match # << >> THEN match[1] ELSE Null

extractFunctionName(line) ==
    LET match1 == ReExec(ReNameFunction, line, TRUE)
        match2 == ReExec(ReNameConst, line, TRUE)
        match3 == ReExec(ReNameCall, line, FALSE)
        match4 == ReExec(ReNameMethod, line, FALSE)
        match5 == ReExec(ReNameDef, line, TRUE)
    IN  IF match1 # << >> THEN match1[1]
        ELSE IF match2 # << >> THEN match2[1]
        ELSE IF match3 # << >> THEN match3[1]
        ELSE IF match4 # << >> THEN match4[1]
        ELSE IF match5 # << >> THEN match5[1]
        ELSE Null

ReDeclKeyword ==
    ReAlt(<<ReStr("var"), ReStr("let"), ReStr("const"), ReStr("int"), ReStr("string"),
            ReStr("boolean"), ReStr("double"), ReStr("float"), ReStr("char")>>)

\* /^(var|let|const|int|string|boolean|double|float|char)\s+\w+/i
ReVariableKeyword == ReCat(<<ReBol, ReDeclKeyword, RePlus(ReS), RePlus(ReW)>>)
\* /^(public|private|protected)?\s*(static\s+)?[\w<>]+\s+\w+\s*[=;]/i
ReVariableField ==
    ReCat(<<ReBol, ReModifier, ReStar(ReS), ReStatic, RePlus(ReWAngle), RePlus(ReS), RePlus(ReW),
            ReStar(ReS), ReSet({"=", ";"})>>)

isVariableDeclaration(line) ==
    \/ ReTest(ReVariableKeyword, line, TRUE)
    \/ ReTest(ReVariableField, line, TRUE)

\* /(?:var|let|const|int|string|boolean|double|float|char)\s+(\w+)/i
ReNameKeyword == ReCat(<<ReDeclKeyword, RePlus(ReS), ReGrp(RePlus(ReW))>>)
\* /[\w<>]+\s+(\w+)\s*[=;]/
ReNameField ==
    ReCat(<<RePlus(ReWAngle), RePlus(ReS), ReGrp(RePlus(ReW)), ReStar(ReS), ReSet({"=", ";"})>>)

extractVariableName(line) ==
    LET match1 == ReExec(ReNameKeyword, line, TRUE)
        match2 == ReExec(ReNameField, line, FALSE)
        match == IF match1 # << >> THEN match1 ELSE match2
    IN  IF match # << >> THEN match[1] ELSE Null

ReTypeKeyword == ReAlt(<<ReStr("class"), ReStr("interface"), ReStr("struct"), ReStr("enum")>>)
\* /^(class|interface|struct|enum)\s+\w+/i
ReClassKeyword == ReCat(<<ReBol, ReTypeKeyword, RePlus(ReS), RePlus(ReW)>>)
\* /^(public|private|protected)?\s*(abstract\s+)?class\s+\w+/i
ReClassModified ==
    ReCat(<<ReBol, ReModifier, ReStar(ReS), ReOpt(ReCat(<<ReStr("abstract"), RePlus(ReS)>>)),
            ReStr("class"), RePlus(ReS), RePlus(ReW)>>)

isClassDeclaration(line) ==
    \/ ReTest(ReClassKeyword, line, TRUE)
    \/ ReTest(ReClassModified, line, TRUE)

\* /(?:class|interface|struct|enum)\s+(\w+)/i
ReNameClass == ReCat(<<ReTypeKeyword, RePlus(ReS), ReGrp(RePlus(ReW))>>)

extractClassName(line) ==
    LET match == ReExec(ReNameClass, line, TRUE)
    IN  IF match # << >> THEN match[1] ELSE Null

\* /^(import|export|from|require)\s/i
ReImportExport ==
    ReCat(<<ReBol, ReAlt(<<ReStr("import"), ReStr("export"), ReStr("from"), ReStr("require")>>), ReS>>)

isImportExport(line) == ReTest(ReImportExport, line, TRUE)

\* /^(if|else|for|while|do|switch|case|try|catch|finally)\s*[\(\{]/i
ReControlFlow ==
    ReCat(<<ReBol,
            ReAlt(<<ReStr("if"), ReStr("else"), ReStr("for"), ReStr("while"), ReStr("do"),
                    ReStr("switch"), ReStr("case"), ReStr("try"), ReStr("catch"), ReStr("finally")>>),
            ReStar(ReS), ReSet({"(", "{"})>>)

isControlFlow(line) == ReTest(ReControlFlow, line, TRUE)

ReKeywordThen(word, c) == ReCat(<<ReBol, ReStr(word), ReStar(ReS), ReCh(c)>>)

getControlFlowType(line) ==
    IF ReTest(ReKeywordThen("if", "("), line, TRUE) THEN "Conditional"
    ELSE IF ReTest(ReKeywordThen("for", "("), line, TRUE) THEN "Loop"
    ELSE IF ReTest(ReKeywordThen("while", "("), line, TRUE) THEN "Loop"
    ELSE IF ReTest(ReKeywordThen("switch", "("), line, TRUE) THEN "Switch"
    ELSE IF ReTest(ReKeywordThen("try", "{"), line, TRUE) THEN "Error handling"
    ELSE "Control flow"

(***************************************************************************)
(* The editor: its text model, its selection, and the action's bookkeeping.*)
(***************************************************************************)
VARIABLES
    hasModel,   \* editor.hasModel()
    buffer,     \* the lines of the text model
    selection,  \* editor.getSelection(): start and end, NoSelection without a model
    moved,      \* the user has placed the caret or the selection since the last edit
    calls,      \* the number of times the action has run
    last        \* what the latest run of the action did

vars == <<hasModel, buffer, selection, moved, calls, last>>

\* the number of runs of the action that are explored
MaxRuns == 2

\* the documents the editor is opened on
Docs ==
    { << "function calculateSum(a, b) {", "    return a + b;", "}" >>,
      << "const userName = \"John Doe\";", "const total = sum(1, 2);" >>,
      << "if (condition) {", "    doSomething();", "}" >>,
      << "import { a } from 'b';", "class Animal {", "    const x = 1;" >>,
      << "if (x) {", "for (;;) {", "try {" >>,
      << "\twhile (x) {", "switch (x) {", "else {" >>,
      << "  function f() {}", "const g = (a) => a;", "let total = 0;" >>,
      << "var b;", "", "x = 5;" >>,
      << "public static void main(String[] args) {", "def area(r):", "async function" >> }

Position(lineNumber, column) == [lineNumber |-> lineNumber, column |-> column]

Range(sl, sc, el, ec) ==
    [startLineNumber |-> sl, startColumn |-> sc, endLineNumber |-> el, endColumn |-> ec]

NoSelection == Range(0, 0, 0, 0)

\* Range.isEmpty
isEmpty(range) ==
    range.startLineNumber = range.endLineNumber /\ range.startColumn = range.endColumn

\* Range.getStartPosition
getStartPosition(range) == Position(range.startLineNumber, range.startColumn)

\* ITextModel.getLineContent
getLineContent(lines, lineNumber) == lines[lineNumber]

\* the lines of a text, joined by line feeds
RECURSIVE join(_)
join(lines) ==
    IF Len(lines) = 1 THEN lines[1] ELSE lines[1] \o "\n" \o join(Tail(lines))

\* String.prototype.split('\n')
RECURSIVE split(_)
split(text) ==
    IF \E k \in 1..Len(text) : CharAt(text, k) = "\n"
    THEN LET k == CHOOSE a \in 1..Len(text) :
                    /\ CharAt(text, a) = "\n"
                    /\ \A b \in 1..(a - 1) : CharAt(text, b) # "\n"
         IN  <<SubSeq(text, 1, k - 1)>> \o split(SubSeq(text, k + 1, Len(text)))
    ELSE <<text>>

\* ITextModel.getValueInRange
getValueInRange(lines, range) ==
    IF range.startLineNumber = range.endLineNumber
    THEN SubSeq(lines[range.startLineNumber], range.startColumn, range.endColumn - 1)
    ELSE join(<<SubSeq(lines[range.startLineNumber], range.startColumn,
                       Len(lines[range.startLineNumber]))>>
              \o SubSeq(lines, range.startLineNumber + 1, range.endLineNumber - 1)
              \o <<SubSeq(lines[range.endLineNumber], 1, range.endColumn - 1)>>)

\* editor.executeEdits with one edit that inserts text at a position
executeEdits(lines, position, text) ==
    LET line == lines[position.lineNumber]
        before == SubSeq(line, 1, position.column - 1)
        after == SubSeq(line, position.column, Len(line))
        pieces == split(text)
        n == Len(pieces)
        inserted == IF n = 1
                    THEN <<before \o pieces[1] \o after>>
                    ELSE <<before \o pieces[1]>> \o SubSeq(pieces, 2, n - 1) \o <<pieces[n] \o after>>
    IN  SubSeq(lines, 1, position.lineNumber - 1) \o inserted
          \o SubSeq(lines, position.lineNumber + 1, Len(lines))

\* editor.setPosition
setPosition(position) ==
    Range(position.lineNumber, position.column, position.lineNumber, position.column)

(***************************************************************************)
(* The action.                                                             *)
(***************************************************************************)
NoRun ==
    [outcome |-> "none", path |-> "none", range |-> NoSelection, branch |-> "none",
     comment |-> "", lineNumber |-> 0, lineContent |-> "", lines |-> << >>,
     functionCount |-> 0, variableCount |-> 0]

\* the cascade with the variable rule tried before the function rule
commentForCurrentContext_variableFirst(trimmedLine) ==
    IF isVariableDeclaration(trimmedLine)
    THEN LET variableName == extractVariableName(trimmedLine)
         IN  [branch |-> "Variable",
              comment |-> "// " \o (IF variableName # Null THEN "Variable: " \o variableName
                                    ELSE "Variable declaration")]
    ELSE IF isFunctionDeclaration(trimmedLine)
    THEN LET functionName == extractFunctionName(trimmedLine)
         IN  [branch |-> "Function",
              comment |-> "// " \o (IF functionName # Null THEN "Function: " \o functionName
                                    ELSE "Function definition")]
    ELSE IF isClassDeclaration(trimmedLine)
    THEN LET className == extractClassName(trimmedLine)
         IN  [branch |-> "Class",
              comment |-> "// " \o (IF className # Null THEN "Class: " \o className
                                    ELSE "Class definition")]
    ELSE IF isImportExport(trimmedLine)
    THEN [branch |-> "ImportExport", comment |-> "// Module import/export"]
    ELSE IF isControlFlow(trimmedLine)
    THEN [branch |-> "ControlFlow",
          comment |-> "// " \o getControlFlowType(trimmedLine) \o " statement"]
    ELSE [branch |-> "Generic", comment |-> "// TODO: Add description"]

\* the cascade of generateCommentForCurrentContext
commentForCurrentContext(trimmedLine) ==
    IF isFunctionDeclaration(trimmedLine)
    THEN LET functionName == extractFunctionName(trimmedLine)
         IN  [branch |-> "Function",
              comment |-> "// " \o (IF functionName # Null THEN "Function: " \o functionName
                                    ELSE "Function definition")]
    ELSE IF isVariableDeclaration(trimmedLine)
    THEN LET variableName == extractVariableName(trimmedLine)
         IN  [branch |-> "Variable",
              comment |-> "// " \o (IF variableName # Null THEN "Variable: " \o variableName
                                    ELSE "Variable declaration")]
    ELSE IF isClassDeclaration(trimmedLine)
    THEN LET className == extractClassName(trimmedLine)
         IN  [branch |-> "Class",
              comment |-> "// " \o (IF className # Null THEN "Class: " \o className
                                    ELSE "Class definition")]
    ELSE IF isImportExport(trimmedLine)
    THEN [branch |-> "ImportExport", comment |-> "// Module import/export"]
    ELSE IF isControlFlow(trimmedLine)
    THEN [branch |-> "ControlFlow",
          comment |-> "// " \o getControlFlowType(trimmedLine) \o " statement"]
    ELSE [branch |-> "Generic", comment |-> "// TODO: Add description"]

\* Array.prototype.filter(...).length, keep[k] being the predicate's value on
\* the k-th element
filterLength(keep) == Cardinality({ k \in 1..Len(keep) : keep[k] })

\* a decimal number in a template literal
RECURSIVE toString(_)
toString(n) ==
    IF n < 10 THEN CharAt(Digits, n + 1)
    ELSE toString(n \div 10) \o CharAt(Digits, (n % 10) + 1)

\* the multi-line branch with the variable count tested before the function count
commentForBlock_variablesFirst(lines) ==
    LET functionCount == filterLength([k \in 1..Len(lines) |-> isFunctionDeclaration(trim(lines[k]))])
        variableCount == filterLength([k \in 1..Len(lines) |-> isVariableDeclaration(trim(lines[k]))])
    IN  IF variableCount > 0
        THEN [branch |-> "Variables", functionCount |-> functionCount,
              variableCount |-> variableCount,
              comment |-> "// Code block with " \o toString(variableCount) \o " variable"
                            \o (IF variableCount > 1 THEN "s" ELSE "")]
        ELSE IF functionCount > 0
        THEN [branch |-> "Functions", functionCount |-> functionCount,
              variableCount |-> variableCount,
              comment |-> "// Code block with " \o toString(functionCount) \o " function"
                            \o (IF functionCount > 1 THEN "s" ELSE "")]
        ELSE [branch |-> "Lines", functionCount |-> functionCount,
              variableCount |-> variableCount,
              comment |-> "// Code block (" \o toString(Len(lines)) \o " lines)"]

\* the multi-line branch with a line counted as a function line only when it
\* is not a variable line
commentForBlock_functionUnlessVariable(lines) ==
    LET functionCount == filterLength([k \in 1..Len(lines) |->
                             /\ ~isVariableDeclaration(trim(lines[k]))
                             /\ isFunctionDeclaration(trim(lines[k]))])
        variableCount == filterLength([k \in 1..Len(lines) |-> isVariableDeclaration(trim(lines[k]))])
    IN  IF functionCount > 0
        THEN [branch |-> "Functions", functionCount |-> functionCount,
              variableCount |-> variableCount,
              comment |-> "// Code block with " \o toString(functionCount) \o " function"
                            \o (IF functionCount > 1 THEN "s" ELSE "")]
        ELSE IF variableCount > 0
        THEN [branch |-> "Variables", functionCount |-> functionCount,
              variableCount |-> variableCount,
              comment |-> "// Code block with " \o toString(variableCount) \o " variable"
                            \o (IF variableCount > 1 THEN "s" ELSE "")]
        ELSE [branch |-> "Lines", functionCount |-> functionCount,
              variableCount |-> variableCount,
              comment |-> "// Code block (" \o toString(Len(lines)) \o " lines)"]

\* the multi-line branch of generateCommentForSelection
commentForBlock(lines) ==
    LET functionCount == filterLength([k \in 1..Len(lines) |-> isFunctionDeclaration(trim(lines[k]))])
        variableCount == filterLength([k \in 1..Len(lines) |-> isVariableDeclaration(trim(lines[k]))])
    IN  IF functionCount > 0
        THEN [branch |-> "Functions", functionCount |-> functionCount,
              variableCount |-> variableCount,
              comment |-> "// Code block with " \o toString(functionCount) \o " function"
                            \o (IF functionCount > 1 THEN "s" ELSE "")]
        ELSE IF variableCount > 0
        THEN [branch |-> "Variables", functionCount |-> functionCount,
              variableCount |-> variableCount,
              comment |-> "// Code block with " \o toString(variableCount) \o " variable"
                            \o (IF variableCount > 1 THEN "s" ELSE "")]
        ELSE [branch |-> "Lines", functionCount |-> functionCount,
              variableCount |-> variableCount,
              comment |-> "// Code block (" \o toString(Len(lines)) \o " lines)"]

\* the branches with a selection of one line given to the whole cascade
commentForSelection_cascade(lines) ==
    IF Len(lines) = 1
    THEN LET result == commentForCurrentContext(trim(lines[1]))
         IN  [branch |-> result.branch, functionCount |-> 0, variableCount |-> 0,
              comment |-> result.comment]
    ELSE commentForBlock(lines)

\* the branches of generateCommentForSelection
commentForSelection(lines) ==
    IF Len(lines) = 1
    THEN LET trimmedLine == trim(lines[1])
         IN  IF isFunctionDeclaration(trimmedLine)
             THEN LET functionName == extractFunctionName(trimmedLine)
                  IN  [branch |-> "Function", functionCount |-> 0, variableCount |-> 0,
                       comment |-> "// " \o (IF functionName # Null
                                             THEN "Function: " \o functionName
                                             ELSE "Function definition")]
             ELSE [branch |-> "Selected", functionCount |-> 0, variableCount |-> 0,
                   comment |-> "// Selected code block"]
    ELSE commentForBlock(lines)

\* the leading white space of a line
indentationOf(lineContent) ==
    SubSeq(lineContent, 1, Len(lineContent) - Len(trimStart(lineContent)))

\* the new caret column without the indentation
insertComment_caretNoIndent(position, comment) ==
    LET lineContent == getLineContent(buffer, position.lineNumber)
        indentation == indentationOf(lineContent)
        insertPosition == Position(position.lineNumber, 1)
        insertText == indentation \o comment \o "\n"
        newPosition == Position(position.lineNumber, Len(comment) + 1)
    IN  /\ buffer' = executeEdits(buffer, insertPosition, insertText)
        /\ selection' = setPosition(newPosition)

\* the text inserted at the caret instead of at column 1
insertComment_atCaret(position, comment) ==
    LET lineContent == getLineContent(buffer, position.lineNumber)
        indentation == indentationOf(lineContent)
        insertText == indentation \o comment \o "\n"
        newPosition == Position(position.lineNumber, Len(comment) + Len(indentation) + 1)
    IN  /\ buffer' = executeEdits(buffer, position, insertText)
        /\ selection' = setPosition(newPosition)

\* the caret left on the line that was commented, below the inserted line
insertComment_caretBelow(position, comment) ==
    LET lineContent == getLineContent(buffer, position.lineNumber)
        indentation == indentationOf(lineContent)
        insertPosition == Position(position.lineNumber, 1)
        insertText == indentation \o comment \o "\n"
        newPosition == Position(position.lineNumber + 1, Len(comment) + Len(indentation) + 1)
    IN  /\ buffer' = executeEdits(buffer, insertPosition, insertText)
        /\ selection' = setPosition(newPosition)

\* AutoCommentAction.insertComment
insertComment(position, comment) ==
    LET lineContent == getLineContent(buffer, position.lineNumber)
        indentation == indentationOf(lineContent)
        insertPosition == Position(position.lineNumber, 1)
        insertText == indentation \o comment \o "\n"
        newPosition == Position(position.lineNumber, Len(comment) + Len(indentation) + 1)
    IN  /\ buffer' = executeEdits(buffer, insertPosition, insertText)
        /\ selection' = setPosition(newPosition)

generateCommentForCurrentContext(position) ==
    LET line == getLineContent(buffer, position.lineNumber)
        trimmedLine == trim(line)
    IN  \E result \in {commentForCurrentContext(trimmedLine)} :
            /\ insertComment(position, result.comment)
            /\ last' = [outcome |-> "inserted", path |-> "context", range |-> selection,
                        branch |-> result.branch,
                        comment |-> result.comment, lineNumber |-> position.lineNumber,
                        lineContent |-> line, lines |-> <<line>>,
                        functionCount |-> 0, variableCount |-> 0]

generateCommentForSelection(range) ==
    LET selectedText == getValueInRange(buffer, range)
    IN  \E lines \in {split(selectedText)} :
        \E result \in {commentForSelection(lines)} :
            /\ insertComment(getStartPosition(range), result.comment)
            /\ last' = [outcome |-> "inserted", path |-> "selection", range |-> range,
                        branch |-> result.branch,
                        comment |-> result.comment, lineNumber |-> range.startLineNumber,
                        lineContent |-> getLineContent(buffer, range.startLineNumber),
                        lines |-> lines,
                        functionCount |-> result.functionCount,
                        variableCount |-> result.variableCount]

\* the action without its test for a model: without one it comments the
\* first line of the model the editor held last
run_withoutModelCheck ==
    /\ calls < MaxRuns
    /\ calls' = calls + 1
    /\ moved' = FALSE
    /\ UNCHANGED hasModel
    /\ IF ~hasModel
       THEN generateCommentForCurrentContext(Position(1, 1))
       ELSE IF isEmpty(selection)
            THEN generateCommentForCurrentContext(getStartPosition(selection))
            ELSE generateCommentForSelection(selection)

\* AutoCommentAction.run
run ==
    /\ calls < MaxRuns
    /\ calls' = calls + 1
    /\ moved' = FALSE
    /\ UNCHANGED hasModel
    /\ IF ~hasModel
       THEN /\ last' = [NoRun EXCEPT !.outcome = "noop"]
            /\ UNCHANGED <<buffer, selection>>
       ELSE IF isEmpty(selection)
            THEN generateCommentForCurrentContext(getStartPosition(selection))
            ELSE generateCommentForSelection(selection)

(***************************************************************************)
(* The user and the host.                                                  *)
(***************************************************************************)
\* editor.setPosition and editor.setSelection by the user: the caret at the
\* start of a line, or a selection from the start of a line, or from its
\* first character that is not white space, to the end of the same or of a
\* later line.  A later call overwrites the selection of an earlier one, so
\* the calls between two edits are taken as one.
setSelection ==
    /\ hasModel
    /\ ~moved
    /\ calls < MaxRuns
    /\ \E sl \in 1..Len(buffer), el \in 1..Len(buffer) :
         \E sc \in {1, Len(indentationOf(buffer[sl])) + 1}, ec \in {1, Len(buffer[el]) + 1} :
            /\ sl <= el
            /\ ec = 1 => (sl = el /\ sc = 1)
            /\ selection' = Range(sl, sc, el, ec)
    /\ moved' = TRUE
    /\ UNCHANGED <<hasModel, buffer, calls, last>>

\* editor.setModel: the model is detached, or attached again with the caret
\* at its start
setModel ==
    /\ calls < MaxRuns
    /\ hasModel' = ~hasModel
    /\ selection' = IF hasModel THEN NoSelection ELSE Range(1, 1, 1, 1)
    /\ moved' = FALSE
    /\ UNCHANGED <<buffer, calls, last>>

Init ==
    /\ hasModel = TRUE
    /\ buffer \in Docs
    /\ selection = Range(1, 1, 1, 1)
    /\ moved = FALSE
    /\ calls = 0
    /\ last = NoRun

Next == run \/ setSelection \/ setModel

Spec == Init /\ [][Next]_vars

(***************************************************************************)
(* Vocabulary of the properties, stated on the text itself.                *)
(***************************************************************************)
StartsWith(t, p) == Len(t) >= Len(p) /\ SubSeq(t, 1, Len(p)) = p

IsWord(w) == w # "" /\ \A k \in 1..Len(w) : CharAt(w, k) \in WordChars

\* the white space a line begins with
LeadingSpace(line) ==
    LET n == CHOOSE k \in 0..Len(line) :
                /\ \A j \in 1..k : CharAt(line, j) \in SpaceChars
                /\ k < Len(line) => CharAt(line, k + 1) \notin SpaceChars
    IN  SubSeq(line, 1, n)

\* the line without the white space around it
Trimmed(line) ==
    LET a == Len(LeadingSpace(line))
        b == CHOOSE k \in a..Len(line) :
                /\ \A j \in (k + 1)..Len(line) : CharAt(line, j) \in SpaceChars
                /\ k > a => CharAt(line, k) \notin SpaceChars
    IN  SubSeq(line, a + 1, b)

\* the latest run inserted a comment for the caret line / for a selection
RanOnLine == last.outcome = "inserted" /\ last.path = "context"
RanOnSelection == last.outcome = "inserted" /\ last.path = "selection"

\* the comment of the latest run stands above its target line
CommentStandsAbove ==
    /\ buffer[last.lineNumber] = LeadingSpace(last.lineContent) \o last.comment
    /\ buffer[last.lineNumber + 1] = last.lineContent

\* the names n for which t reads "function n(..."
NamedFunctionNames(t) ==
    { SubSeq(t, 10, 9 + n) : n \in { m \in 1..(Len(t) - 10) :
        /\ StartsWith(t, "function ")
        /\ IsWord(SubSeq(t, 10, 9 + m))
        /\ CharAt(t, 10 + m) = "(" } }

\* the names n for which t reads "const n = v;" with v not starting with "("
ConstAssignmentNames(t) ==
    { SubSeq(t, 7, 6 + n) : n \in { m \in 1..(Len(t) - 11) :
        /\ StartsWith(t, "const ")
        /\ IsWord(SubSeq(t, 7, 6 + m))
        /\ SubSeq(t, 7 + m, 9 + m) = " = "
        /\ CharAt(t, 10 + m) # "("
        /\ CharAt(t, Len(t)) = ";" } }

ControlFlowKeywords ==
    {"if", "else", "for", "while", "do", "switch", "case", "try", "catch", "finally"}

\* the keywords k for which t reads k, then white space if any, then "(" or "{"
ControlFlowKeywordsOf(t) ==
    { k \in ControlFlowKeywords :
        /\ StartsWith(t, k)
        /\ \E j \in (Len(k) + 1)..Len(t) :
              /\ CharAt(t, j) \in {"(", "{"}
              /\ \A i \in (Len(k) + 1)..(j - 1) : CharAt(t, i) \in SpaceChars }

ControlFlowKind(k) ==
    CASE k = "if" -> "Conditional"
      [] k \in {"for", "while"} -> "Loop"
      [] k = "switch" -> "Switch"
      [] k = "try" -> "Error handling"
      [] OTHER -> "Control flow"

(***************************************************************************)
(* Properties.                                                             *)
(***************************************************************************)
IfBlock == << "if (condition) {", "    doSomething();", "}" >>

\* C1: selecting the three lines of the if block (line 1 column 1 to line 3
\* column 2) counts no function line and no variable line, and the comment
\* inserted above the selection is "// Code block (3 lines)".
C1_IfBlockIsThreeLines ==
    (RanOnSelection /\ last.lines = IfBlock)
        => /\ last.functionCount = 0
           /\ last.variableCount = 0
           /\ last.comment = "// Code block (3 lines)"
           /\ buffer[last.lineNumber] = "// Code block (3 lines)"

\* C2: with the caret on a line that reads "function <name>(...", the line is
\* classified Function, the comment "// Function: <name>" (after the line's
\* indentation) becomes line N and the declaration moves to line N + 1.
C2_NamedFunctionComment ==
    RanOnLine =>
        \A name \in NamedFunctionNames(Trimmed(last.lineContent)) :
            /\ last.branch = "Function"
            /\ last.comment = "// Function: " \o name
            /\ CommentStandsAbove

C2_Witness ==
    /\ RanOnLine
    /\ last.lineContent = "function calculateSum(a, b) {"
    /\ buffer[1] = "// Function: calculateSum"
    /\ buffer[2] = "function calculateSum(a, b) {"

\* C3: with the caret on a line "const <name> = <value>;" whose value does not
\* start with "(", the line is classified Variable, not Function, and the
\* comment is "// Variable: <name>".
C3_ConstIsVariable ==
    RanOnLine =>
        \A name \in ConstAssignmentNames(Trimmed(last.lineContent)) :
            /\ last.branch = "Variable"
            /\ last.comment = "// Variable: " \o name
            /\ CommentStandsAbove

C3_Witness ==
    /\ RanOnLine
    /\ last.lineContent = "const userName = \"John Doe\";"
    /\ last.branch = "Variable"
    /\ buffer[1] = "// Variable: userName"

\* C4: with the caret on a line that begins with a control-flow keyword
\* followed by "(" or "{", the line is classified ControlFlow and the comment
\* is "// <kind> statement", the kind being Conditional for if, Loop for for
\* and while, Switch for switch, Error handling for try, Control flow otherwise.
C4_ControlFlowComment ==
    RanOnLine =>
        \A k \in ControlFlowKeywordsOf(Trimmed(last.lineContent)) :
            /\ last.branch = "ControlFlow"
            /\ last.comment = "// " \o ControlFlowKind(k) \o " statement"

C4_Witness ==
    /\ RanOnLine
    /\ last.lineContent = "try {"
    /\ last.comment = "// Error handling statement"

Rules == <<"Function", "Variable", "Class", "ImportExport", "ControlFlow">>

RuleMatches(i, t) ==
    CASE i = 1 -> isFunctionDeclaration(t)
      [] i = 2 -> isVariableDeclaration(t)
      [] i = 3 -> isClassDeclaration(t)
      [] i = 4 -> isImportExport(t)
      [] i = 5 -> isControlFlow(t)

\* C5: the caret-line path always produces exactly one category: the first
\* of Function, Variable, Class, ImportExport, ControlFlow whose rule the
\* trimmed line matches, and Generic with "// TODO: Add description" when
\* no rule matches.
C5_FirstMatchingRule ==
    RanOnLine =>
        LET t == Trimmed(last.lineContent)
            matching == { i \in 1..Len(Rules) : RuleMatches(i, t) }
        IN  /\ \A i \in 1..Len(Rules) :
                 last.branch = Rules[i] <=> (i \in matching /\ \A j \in matching : i <= j)
            /\ last.branch = "Generic" <=> matching = {}
            /\ last.branch = "Generic" => last.comment = "// TODO: Add description"
            /\ last.branch \in {Rules[i] : i \in 1..Len(Rules)} \cup {"Generic"}

\* a line that matches the Function and the Variable rule
C5_Witness ==
    /\ RanOnLine
    /\ last.lineContent = "const g = (a) => a;"
    /\ isVariableDeclaration(last.lineContent)
    /\ last.branch = "Function"

\* the number of lines a range covers
LinesOf(range) == range.endLineNumber - range.startLineNumber + 1

\* the text of line k of the range a run was given, trimmed
SelectedLine(k) ==
    LET full == buffer[last.lineNumber + k]
        from == IF k = 1 THEN last.range.startColumn ELSE 1
        to == IF k = LinesOf(last.range) THEN last.range.endColumn - 1 ELSE Len(full)
    IN  Trimmed(SubSeq(full, from, to))

Plural(n) == IF n > 1 THEN "s" ELSE ""

\* C6: for a selection of more than one line the comment is "Code block with
\* <f> function(s)" when f > 0 lines are function lines, else "Code block
\* with <v> variable(s)" when v > 0 lines are variable lines, else "Code
\* block (<n> lines)", n counting every line of the selection; "s" is added
\* exactly when the count exceeds 1.
C6_BlockComment ==
    (RanOnSelection /\ LinesOf(last.range) > 1) =>
        LET n == LinesOf(last.range)
            f == Cardinality({ k \in 1..n : isFunctionDeclaration(SelectedLine(k)) })
            v == Cardinality({ k \in 1..n : isVariableDeclaration(SelectedLine(k)) })
        IN  last.comment = "// " \o
               (IF f > 0 THEN "Code block with " \o toString(f) \o " function" \o Plural(f)
                ELSE IF v > 0 THEN "Code block with " \o toString(v) \o " variable" \o Plural(v)
                ELSE "Code block (" \o toString(n) \o " lines)")

\* two function lines and one variable line: "2 functions"
C6_Witness ==
    /\ RanOnSelection
    /\ last.lines = << "  function f() {}", "const g = (a) => a;", "let total = 0;" >>
    /\ last.variableCount > 0
    /\ last.comment = "// Code block with 2 functions"

\* a step of the action on an editor that has a model
Invocation == hasModel /\ calls' = calls + 1

\* C7: an invocation with target line N (the caret line, or the line the
\* selection starts on) inserts the indentation of line N, "// ", the
\* comment and a line end at column 1 of line N, and leaves the caret, as an
\* empty selection, on line N at column len(indentation) + len("// " +
\* comment) + 1.
C7_Placement ==
    [][Invocation =>
        LET N == selection.startLineNumber
            text == LeadingSpace(buffer[N]) \o last'.comment
        IN  /\ StartsWith(last'.comment, "// ")
            /\ buffer' = SubSeq(buffer, 1, N - 1) \o <<text>> \o SubSeq(buffer, N, Len(buffer))
            /\ selection' = Range(N, Len(text) + 1, N, Len(text) + 1)]_vars

C7_Witness ==
    /\ RanOnLine
    /\ last.lineContent = "    const x = 1;"
    /\ buffer[3] = "    // Variable: x"
    /\ buffer[4] = "    const x = 1;"
    /\ selection = Range(3, 19, 3, 19)

IsCommentLine(line) == StartsWith(Trimmed(line), "// ")

RemoveAt(lines, k) == SubSeq(lines, 1, k - 1) \o SubSeq(lines, k + 1, Len(lines))

\* C8: every invocation on an editor with a model inserts exactly one line,
\* a comment, and changes and removes no other line; no other step changes
\* the text.  So n invocations leave the original lines, in order, and n
\* comment lines, two of them stacked when the same line is commented twice.
C8_OneLinePerInvocation ==
    [][IF Invocation
       THEN \E k \in 1..Len(buffer') :
               /\ RemoveAt(buffer', k) = buffer
               /\ IsCommentLine(buffer'[k])
       ELSE buffer' = buffer]_vars

C8_Witness ==
    /\ calls = 2
    /\ buffer = << "// Function: calculateSum", "// Function: calculateSum",
                   "function calculateSum(a, b) {", "    return a + b;", "}" >>

\* C9: an invocation on an editor without a model classifies nothing, edits
\* nothing, and leaves the caret and the selection as they were.
C9_NoModelNoOp ==
    [][(~hasModel /\ calls' = calls + 1) =>
          /\ UNCHANGED <<buffer, selection, hasModel>>
          /\ last'.outcome = "noop"
          /\ last'.branch = "none"
          /\ last'.comment = ""]_vars

C9_Witness ==
    /\ ~hasModel
    /\ calls > 0
    /\ last.outcome = "noop"
    /\ selection = NoSelection

\* C10: for a non-empty selection within one line only the Function rule is
\* consulted: a function line gets "Function: <name>" ("Function definition"
\* without a name), anything else "Selected code block".
C10_OneLineSelection ==
    (RanOnSelection /\ LinesOf(last.range) = 1) =>
        LET t == SelectedLine(1)
            name == extractFunctionName(t)
        IN  last.comment = "// " \o
               (IF isFunctionDeclaration(t)
                THEN (IF name # Null THEN "Function: " \o name ELSE "Function definition")
                ELSE "Selected code block")

\* a class line, which the caret path labels "Class: Animal"
C10_Witness ==
    /\ RanOnSelection
    /\ last.lines = << "class Animal {" >>
    /\ commentForCurrentContext("class Animal {").comment = "// Class: Animal"
    /\ last.comment = "// Selected code block"

\* the caret stands where the latest run left it: on the line that run inserted
CaretOnInsertedLine ==
    /\ hasModel
    /\ last.outcome = "inserted"
    /\ ~moved
    /\ buffer[last.lineNumber] = LeadingSpace(last.lineContent) \o last.comment
    /\ selection = Range(last.lineNumber, Len(buffer[last.lineNumber]) + 1,
                         last.lineNumber, Len(buffer[last.lineNumber]) + 1)

\* C11: an invocation inserts indentation and "// ..." and leaves an empty
\* selection on the line it inserted; an invocation that finds the caret
\* where the previous one left it stands on that comment line, which matches
\* none of the five rules, so it takes the caret path, classifies the line
\* Generic and inserts "// TODO: Add description" above it, whatever the
\* previous comment was.
C11_SecondRunIsTodo ==
    [][Invocation =>
        LET N == selection.startLineNumber
        IN  /\ buffer'[N] = LeadingSpace(buffer[N]) \o last'.comment
            /\ StartsWith(Trimmed(buffer'[N]), "//")
            /\ isEmpty(selection')
            /\ selection'.startLineNumber = N
            /\ CaretOnInsertedLine =>
                  /\ \A i \in 1..Len(Rules) : ~RuleMatches(i, Trimmed(buffer[N]))
                  /\ last'.path = "context"
                  /\ last'.lineNumber = last.lineNumber
                  /\ last'.lineContent = LeadingSpace(last.lineContent) \o last.comment
                  /\ last'.branch = "Generic"
                  /\ last'.comment = "// TODO: Add description"
                  /\ buffer'[N] = LeadingSpace(last.lineContent) \o "// TODO: Add description"
                  /\ buffer'[N + 1] = buffer[N]]_vars

\* the second of two invocations in a row, the first on an indented variable line
C11_Witness ==
    /\ calls = 2
    /\ RanOnLine
    /\ last.lineContent = "    // Variable: x"
    /\ buffer[3] = "    // TODO: Add description"
    /\ buffer[4] = "    // Variable: x"
    /\ buffer[5] = "    const x = 1;"
    /\ selection = Range(3, 29, 3, 29)

\* the text of line k of the selection an invocation is given, trimmed
SelectionLine(k) ==
    LET full == buffer[selection.startLineNumber + k - 1]
        from == IF k = 1 THEN selection.startColumn ELSE 1
        to == IF k = LinesOf(selection) THEN selection.endColumn - 1 ELSE Len(full)
    IN  Trimmed(SubSeq(full, from, to))

\* what the function rule and the variable rule say of each selected line
SelectionLineKinds ==
    [k \in 1..LinesOf(selection) |->
        [function |-> isFunctionDeclaration(SelectionLine(k)),
         variable |-> isVariableDeclaration(SelectionLine(k))]]

\* the category the ordered cascade gives a line, as far as Function and
\* Variable go: Function when the function rule matches, Variable when it
\* does not and the variable rule matches
CascadeBranch(kind) ==
    IF kind.function THEN "Function" ELSE IF kind.variable THEN "Variable" ELSE "Other"

\* the comment of a block of n lines with f function and v variable lines
BlockCommentOf(f, v, n) ==
    IF f > 0 THEN "// Code block with " \o toString(f) \o " function" \o Plural(f)
    ELSE IF v > 0 THEN "// Code block with " \o toString(v) \o " variable" \o Plural(v)
    ELSE "// Code block (" \o toString(n) \o " lines)"

\* C12: on a selection of more than one line the function tally and the
\* variable tally are taken independently, a line that matches both rules
\* counting in both, while the ordered cascade calls such a line Function
\* only; the comment is nevertheless the one that the cascade's Function and
\* Variable tallies give.
C12_TalliesAgreeWithCascade ==
    [][(Invocation /\ LinesOf(selection) > 1) =>
        \A kinds \in {SelectionLineKinds} :
            LET n == Len(kinds)
                count(S) == Cardinality(S)
                both == { k \in 1..n : kinds[k].function /\ kinds[k].variable }
                cascadeFunctions == { k \in 1..n : CascadeBranch(kinds[k]) = "Function" }
                cascadeVariables == { k \in 1..n : CascadeBranch(kinds[k]) = "Variable" }
            IN  /\ last'.path = "selection"
                /\ last'.functionCount = count({ k \in 1..n : kinds[k].function })
                /\ last'.variableCount = count({ k \in 1..n : kinds[k].variable })
                /\ last'.variableCount = count(cascadeVariables) + count(both)
                /\ \A k \in both :
                       commentForCurrentContext(SelectionLine(k)).branch = "Function"
                /\ last'.comment = BlockCommentOf(count(cascadeFunctions),
                                                   count(cascadeVariables), n)]_vars

\* "const g = (a) => a;" counts in both tallies; the cascade has one variable
C12_Witness ==
    /\ RanOnSelection
    /\ last.lines = << "const g = (a) => a;", "let total = 0;" >>
    /\ isFunctionDeclaration(last.lines[1]) /\ isVariableDeclaration(last.lines[1])
    /\ last.functionCount = 1
    /\ last.variableCount = 2
    /\ commentForCurrentContext(last.lines[2]).branch = "Variable"
    /\ last.comment = "// Code block with 1 function"

====
